---------------------------- MODULE Spec2Model ----------------------------
(***************************************************************************)
(* ParkingSimState (sim/src/mechanics/parking.rs): the inventory of        *)
(* parking spots built from a map, the occupancy / reservation ledger, and *)
(* the operations that mutate them.  A panic (assert!, unwrap, expect,     *)
(* indexing a missing key) halts the simulation: it is recorded in `fault` *)
(* together with whatever the handler had already written, and no further  *)
(* operation runs.                                                         *)
(***************************************************************************)
EXTENDS Integers, Sequences, FiniteSets, TLC

\* ------------------------------------------------------------------ bounds
\* Largest number of spots one parking lane, building or lot can have.
MaxSpots == 1
\* Number of distinct vehicles.
NumCars == 2
\* Events that may sit in the queue before the caller drains it.
MaxEvents == 1

\* map_model::PARKING_SPOT_LENGTH (8 m).  Distances are in units of 2 m.
PARKING_SPOT_LENGTH == 4

\* ------------------------------------------------------------- value sets
ParkingLaneIDs == {1}
BuildingIDs == {1}
LotIDs == {1}
CarIDs == 1..NumCars

\* "no entry" values of the two BTreeMaps (Option::None)
NoCar == 0
NoSpot == [kind |-> "None", id |-> 0, idx |-> 0]

Onstreet(l, idx) == [kind |-> "Onstreet", id |-> l, idx |-> idx]
Offstreet(b, idx) == [kind |-> "Offstreet", id |-> b, idx |-> idx]
Lot(pl, idx) == [kind |-> "Lot", id |-> pl, idx |-> idx]

\* Every ParkingSpot value a caller can hold (stale handles included).
ParkingSpot ==
    {Onstreet(l, i) : l \in ParkingLaneIDs, i \in 0..(MaxSpots - 1)}
    \cup {Offstreet(b, i) : b \in BuildingIDs, i \in 0..(MaxSpots - 1)}
    \cup {Lot(pl, i) : pl \in LotIDs, i \in 0..(MaxSpots - 1)}

\* A ParkedCar record as a caller passes it: the vehicle and the spot.
ParkedCar == [vehicle : CarIDs, spot : ParkingSpot]

\* The Vehicle of a car: its id and its length (car c is 2c units long).
Vehicle(c) == [id |-> c, length |-> 2 * c]

\* map_model::Position: a lane and a distance along it.
Position(l, d) == [lane |-> l, dist_along |-> d]
\* Position::start(lane)
Position_start(l) == Position(l, 0)

\* ---------------------------------------------------------------- the map
\* What ParkingSimState reads of a lane, a building and a parking lot.  `road`
\* is the driving lane the object is attached to; a field that the code never
\* reads on a path is kept at a fixed value.
LaneInputs(road) ==
    {[lane_type |-> "Driving", has_driving |-> TRUE, driving_lane |-> road,
      driving_blackhole |-> FALSE, has_sidewalk |-> TRUE, number_parking_spots |-> 0]}
    \cup {[lane_type |-> "Parking", has_driving |-> FALSE, driving_lane |-> road,
           driving_blackhole |-> FALSE, has_sidewalk |-> TRUE, number_parking_spots |-> 0]}
    \cup {[lane_type |-> "Parking", has_driving |-> TRUE, driving_lane |-> road,
           driving_blackhole |-> TRUE, has_sidewalk |-> TRUE,
           number_parking_spots |-> MaxSpots]}
    \cup {[lane_type |-> "Parking", has_driving |-> TRUE, driving_lane |-> road,
           driving_blackhole |-> FALSE, has_sidewalk |-> FALSE,
           number_parking_spots |-> MaxSpots]}
    \cup {[lane_type |-> "Parking", has_driving |-> TRUE, driving_lane |-> road,
           driving_blackhole |-> FALSE, has_sidewalk |-> TRUE,
           number_parking_spots |-> n] : n \in 0..MaxSpots}

\* A lane of parking type with n spots beside driving lane `road`.
ParkingLaneInput(road, blackhole, n) ==
    [lane_type |-> "Parking", has_driving |-> TRUE, driving_lane |-> road,
     driving_blackhole |-> blackhole, has_sidewalk |-> TRUE, number_parking_spots |-> n]

BuildingInputs(road) ==
    {[driving_connection |-> FALSE, driving_pos |-> Position(road, 1),
      driving_blackhole |-> FALSE, num_parking_spots |-> MaxSpots, parking |-> "Public"]}
    \cup {[driving_connection |-> TRUE, driving_pos |-> Position(road, 1),
           driving_blackhole |-> TRUE, num_parking_spots |-> MaxSpots, parking |-> "Public"]}
    \cup {[driving_connection |-> TRUE, driving_pos |-> Position(road, 1),
           driving_blackhole |-> FALSE, num_parking_spots |-> n, parking |-> "Public"] :
            n \in 0..MaxSpots}

LotInputs(road) ==
    {[driving_pos |-> Position(road, 1), driving_blackhole |-> TRUE, capacity |-> MaxSpots,
      spots |-> MaxSpots]}
    \cup {[driving_pos |-> Position(road, 1), driving_blackhole |-> FALSE, capacity |-> n,
           spots |-> n] : n \in 0..MaxSpots}

\* The maps of a town with one parking lane, one building and one parking lot
\* along driving lane 2, and no turn.  `turns` is the set of car turns, each
\* with its source lane, its destination lane and its length; `lane_length`
\* is the length of each driving lane.
Maps == [lanes : [ParkingLaneIDs -> LaneInputs(2)],
         buildings : [BuildingIDs -> BuildingInputs(2)],
         lots : [LotIDs -> LotInputs(2)],
         turns : {{}},
         lane_length : {[l \in {2} |-> 1]}]

\* ------------------------------------------------------------------ state
VARIABLES
    parked_cars,             \* CarID -> spot of its ParkedCar record, or NoSpot
    occupants,               \* ParkingSpot -> CarID, or NoCar
    reserved_spots,          \* set of ParkingSpot
    onstreet_lanes,          \* LaneID -> ParkingLane, for the lanes recorded
    driving_to_parking_lanes,\* driving LaneID -> set of parking LaneID
    num_spots_per_offstreet, \* BuildingID -> usize, for the buildings recorded
    driving_to_offstreet,    \* driving LaneID -> set of <<BuildingID, Distance>>
    num_spots_per_lot,       \* ParkingLotID -> usize, for the lots recorded
    driving_to_lots,         \* driving LaneID -> set of ParkingLotID
    events,                  \* Vec<Event>
    fault,                   \* "none", or the panic that halted the program
    last,                    \* the last call: its name, arguments and result
    map,                     \* the Map the callers pass to the queries
    drivers                  \* what each driver remembers of its last search

vars == <<parked_cars, occupants, reserved_spots, onstreet_lanes,
          driving_to_parking_lanes, num_spots_per_offstreet, driving_to_offstreet,
          num_spots_per_lot, driving_to_lots, events, fault, last, map, drivers>>

\* the tables ParkingSimState derives from the map
inventory == <<onstreet_lanes, driving_to_parking_lanes, num_spots_per_offstreet,
               driving_to_offstreet, num_spots_per_lot, driving_to_lots>>

\* the state outside ParkingSimState
outside == <<map, drivers>>

\* ------------------------------------------------------------- ParkingLane
\* spot_dist_along[idx] is PARKING_SPOT_LENGTH * (2 + idx).  Sequences are
\* 1-based: entry idx + 1 is spot idx.
\* the spots laid out from the far end: index 0 the farthest along
ParkingLane_new_descending(l, lane) ==
    [parking_lane |-> l,
     driving_lane |-> lane.driving_lane,
     spot_dist_along |-> [i \in 1..lane.number_parking_spots |->
                            PARKING_SPOT_LENGTH * (2 + (lane.number_parking_spots - i))]]
ParkingLane_new(l, lane) ==
    [parking_lane |-> l,
     driving_lane |-> lane.driving_lane,
     spot_dist_along |-> [i \in 1..lane.number_parking_spots |->
                            PARKING_SPOT_LENGTH * (2 + (i - 1))]]

\* ParkingLane::new returns Some for this lane
ParkingLane_some(lane) ==
    /\ lane.lane_type = "Parking"
    /\ lane.has_driving
    /\ ~lane.driving_blackhole
    /\ lane.has_sidewalk

\* ParkingLane::new panics: "Parking lane {} has no driving lane!"
ParkingLane_panics(lane) ==
    lane.lane_type = "Parking" /\ ~lane.has_driving

\* the spots listed from the last index down to 0
ParkingLane_spots_reversed(pl) ==
    [i \in 1..Len(pl.spot_dist_along) |->
        Onstreet(pl.parking_lane, Len(pl.spot_dist_along) - i)]
ParkingLane_spots(pl) ==
    [i \in 1..Len(pl.spot_dist_along) |-> Onstreet(pl.parking_lane, i - 1)]

\* -------------------------------------------------------------------- new
\* The tables ParkingSimState::new builds from a map m.
new_onstreet_lanes(m) ==
    [l \in {x \in DOMAIN m.lanes : ParkingLane_some(m.lanes[x])} |->
        ParkingLane_new(l, m.lanes[l])]

new_driving_to_parking_lanes(m) ==
    LET ol == new_onstreet_lanes(m)
    IN [d \in {ol[l].driving_lane : l \in DOMAIN ol} |->
            {l \in DOMAIN ol : ol[l].driving_lane = d}]

new_num_spots_per_offstreet(m) ==
    [b \in {x \in DOMAIN m.buildings :
              /\ m.buildings[x].driving_connection
              /\ ~m.buildings[x].driving_blackhole
              /\ m.buildings[x].num_parking_spots > 0} |->
        m.buildings[b].num_parking_spots]

new_driving_to_offstreet(m) ==
    LET nb == new_num_spots_per_offstreet(m)
    IN [d \in {m.buildings[b].driving_pos.lane : b \in DOMAIN nb} |->
            {<<b, m.buildings[b].driving_pos.dist_along>> :
                b \in {x \in DOMAIN nb : m.buildings[x].driving_pos.lane = d}}]

\* every lot recorded, those on a blackhole lane too
new_num_spots_per_lot_all(m) ==
    [pl \in DOMAIN m.lots |-> m.lots[pl].capacity]
new_num_spots_per_lot(m) ==
    [pl \in {x \in DOMAIN m.lots : ~m.lots[x].driving_blackhole} |-> m.lots[pl].capacity]

new_driving_to_lots(m) ==
    LET nl == new_num_spots_per_lot(m)
    IN [d \in {m.lots[pl].driving_pos.lane : pl \in DOMAIN nl} |->
            {pl \in DOMAIN nl : m.lots[pl].driving_pos.lane = d}]

new(m) ==
    [onstreet_lanes |-> new_onstreet_lanes(m),
     driving_to_parking_lanes |-> new_driving_to_parking_lanes(m),
     num_spots_per_offstreet |-> new_num_spots_per_offstreet(m),
     driving_to_offstreet |-> new_driving_to_offstreet(m),
     num_spots_per_lot |-> new_num_spots_per_lot(m),
     driving_to_lots |-> new_driving_to_lots(m)]

new_panics(m) == \E l \in DOMAIN m.lanes : ParkingLane_panics(m.lanes[l])

\* ---------------------------------------------------------------- helpers
RECURSIVE SeqOfSet(_)
\* the keys of a BTreeMap in iteration (ascending) order
SeqOfSet(S) ==
    IF S = {} THEN <<>>
    ELSE LET m == CHOOSE x \in S : \A y \in S : x <= y
         IN <<m>> \o SeqOfSet(S \ {m})

RECURSIVE Flatten(_)
Flatten(ss) == IF ss = <<>> THEN <<>> ELSE Head(ss) \o Flatten(Tail(ss))

Range(s) == {s[i] : i \in DOMAIN s}

\* ------------------------------------------------------------------ ledger
\* is_free forgetting the occupants map
is_free_ignoring_occupants(occ, res, spot) == spot \notin res

is_free_in(occ, res, spot) == occ[spot] = NoCar /\ spot \notin res

\* every spot taken for free
is_free_always(spot) == TRUE
is_free(spot) == is_free_in(occupants, reserved_spots, spot)

\* get_free_onstreet_spots(l): no entry of onstreet_lanes gives the empty Vec.
get_free_onstreet_spots(l) ==
    IF l \in DOMAIN onstreet_lanes
    THEN SelectSeq(ParkingLane_spots(onstreet_lanes[l]), LAMBDA s : is_free(s))
    ELSE <<>>

\* The spots of an inventory, in the order get_all_parking_spots lists them.
all_spots(ol, nb, nl) ==
    LET lanes == SeqOfSet(DOMAIN ol)
        bs == SeqOfSet(DOMAIN nb)
        pls == SeqOfSet(DOMAIN nl)
    IN Flatten([i \in 1..Len(lanes) |-> ParkingLane_spots(ol[lanes[i]])])
       \o Flatten([i \in 1..Len(bs) |-> [k \in 1..nb[bs[i]] |-> Offstreet(bs[i], k - 1)]])
       \o Flatten([i \in 1..Len(pls) |-> [k \in 1..nl[pls[i]] |-> Lot(pls[i], k - 1)]])

\* get_all_parking_spots: (filled, available)
get_all_parking_spots(ol, nb, nl, occ, res) ==
    LET spots == all_spots(ol, nb, nl)
    IN [filled |-> SelectSeq(spots, LAMBDA s : ~is_free_in(occ, res, s)),
        available |-> SelectSeq(spots, LAMBDA s : is_free_in(occ, res, s))]

\* the sanity check with <= in place of <
spot_exists_off_by_one(ol, nb, nl, spot) ==
    IF spot.kind = "Onstreet"
    THEN spot.id \in DOMAIN ol /\ spot.idx <= Len(ol[spot.id].spot_dist_along)
    ELSE IF spot.kind = "Offstreet"
    THEN spot.id \in DOMAIN nb /\ spot.idx <= nb[spot.id]
    ELSE spot.id \in DOMAIN nl /\ spot.idx <= nl[spot.id]

\* The spot exists: what reserve_spot's sanity check asks.
spot_exists(ol, nb, nl, spot) ==
    IF spot.kind = "Onstreet"
    THEN spot.id \in DOMAIN ol /\ spot.idx < Len(ol[spot.id].spot_dist_along)
    ELSE IF spot.kind = "Offstreet"
    THEN spot.id \in DOMAIN nb /\ spot.idx < nb[spot.id]
    ELSE spot.id \in DOMAIN nl /\ spot.idx < nl[spot.id]

\* The spots of the current inventory, as a set.
inventory_spots(ol, nb, nl) == Range(all_spots(ol, nb, nl))

\* BTreeSet::remove / BTreeMap::insert / BTreeMap::remove / contains_key on
\* the ledger tables.
reserved_remove(res, spot) == res \ {spot}
\* an insert that is lost
reserved_insert_lost(res, spot) == res
reserved_insert(res, spot) == res \cup {spot}
\* an insert keyed by the wrong spot: the table is left as it was
occupants_insert_lost(occ, spot, car) == occ
occupants_insert(occ, spot, car) == [occ EXCEPT ![spot] = car]
occupants_remove(occ, spot) == [occ EXCEPT ![spot] = NoCar]
parked_cars_insert(pc, car, spot) == [pc EXCEPT ![car] = spot]
parked_cars_remove(pc, car) == [pc EXCEPT ![car] = NoSpot]
\* a contains_key that never finds the vehicle
parked_cars_contains_key_never(pc, car) == FALSE
parked_cars_contains_key(pc, car) == pc[car] # NoSpot
lookup_parked_car_in(pc, id) == pc[id]
lookup_parked_car(id) == lookup_parked_car_in(parked_cars, id)

\* One call of the interface: its name, its arguments and what it returned.
Call(op, car, spot, ret) == [op |-> op, car |-> car, spot |-> spot, ret |-> ret]

CarReachedParkingSpot(car, spot) == [event |-> "CarReachedParkingSpot", car |-> car, spot |-> spot]
CarLeftParkingSpot(car, spot) == [event |-> "CarLeftParkingSpot", car |-> car, spot |-> spot]

\* a push at the front of the queue
events_push_front(q, e) == <<e>> \o q
\* Vec::push on the event queue
events_push(q, e) == Append(q, e)

\* -------------------------------------------------------------------- Init
\* The state ParkingSimState::new(m) returns, for a map m it accepts: its
\* tables, and with them its empty ledger; `spots` are the ParkingSpot values
\* the callers can hold.
new_tables(m) ==
    /\ ~new_panics(m)
    /\ \E n \in {new(m)} :
        /\ onstreet_lanes = n.onstreet_lanes
        /\ driving_to_parking_lanes = n.driving_to_parking_lanes
        /\ num_spots_per_offstreet = n.num_spots_per_offstreet
        /\ driving_to_offstreet = n.driving_to_offstreet
        /\ num_spots_per_lot = n.num_spots_per_lot
        /\ driving_to_lots = n.driving_to_lots

new_state(m, spots) ==
    /\ new_tables(m)
    /\ parked_cars = [c \in CarIDs |-> NoSpot]
    /\ occupants = [s \in spots |-> NoCar]
    /\ reserved_spots = {}
    /\ events = <<>>
    /\ fault = "none"
    /\ last = Call("new", NoCar, NoSpot, <<>>)

\* Spec follows ParkingSimState alone: none of its operations reads the map
\* once `new` has returned, so the map and the drivers are not recorded.
Unrecorded == "unrecorded"

Init ==
    \E m \in Maps :
        /\ new_state(m, ParkingSpot)
        /\ map = Unrecorded
        /\ drivers = Unrecorded

\* ------------------------------------------------------------ reserve_spot
reserve_spot(spot) ==
    /\ fault = "none"
    /\ last' = Call("reserve_spot", NoCar, spot, <<>>)
    /\ IF ~is_free(spot)
       THEN /\ fault' = "reserve_spot: assert is_free"
            /\ UNCHANGED reserved_spots
       ELSE /\ reserved_spots' = reserved_insert(reserved_spots, spot)
            /\ fault' = IF spot_exists(onstreet_lanes, num_spots_per_offstreet,
                                       num_spots_per_lot, spot)
                        THEN "none"
                        ELSE "reserve_spot: spot does not exist"
    /\ UNCHANGED <<parked_cars, occupants, inventory, events>>

\* ------------------------------------------------------- remove_parked_car
\* The caller passes the whole ParkedCar record p; the code trusts p.spot.
\* The callers drain the queue before it holds more than `cap` events.
remove_parked_car_upto(p, cap) ==
    /\ fault = "none"
    /\ last' = Call("remove_parked_car", p.vehicle, p.spot, <<>>)
    /\ IF ~parked_cars_contains_key(parked_cars, p.vehicle)
       THEN /\ fault' = "remove_parked_car missing from parked_cars"
            /\ UNCHANGED <<parked_cars, occupants, events>>
       ELSE /\ parked_cars' = parked_cars_remove(parked_cars, p.vehicle)
            /\ IF occupants[p.spot] = NoCar
               THEN /\ fault' = "remove_parked_car missing from occupants"
                    /\ UNCHANGED <<occupants, events>>
               ELSE /\ Len(events) < cap
                    /\ occupants' = occupants_remove(occupants, p.spot)
                    /\ events' = events_push(events, CarLeftParkingSpot(p.vehicle, p.spot))
                    /\ fault' = "none"
    /\ UNCHANGED <<reserved_spots, inventory>>

remove_parked_car(p) == remove_parked_car_upto(p, MaxEvents)

\* ---------------------------------------------------------- add_parked_car
add_parked_car_upto(p, cap) ==
    /\ fault = "none"
    /\ Len(events) < cap
    /\ last' = Call("add_parked_car", p.vehicle, p.spot, <<>>)
    /\ events' = events_push(events, CarReachedParkingSpot(p.vehicle, p.spot))
    /\ IF p.spot \notin reserved_spots
       THEN /\ fault' = "add_parked_car: assert reserved_spots.remove"
            /\ UNCHANGED <<reserved_spots, occupants, parked_cars>>
       ELSE /\ reserved_spots' = reserved_remove(reserved_spots, p.spot)
            /\ IF occupants[p.spot] # NoCar
               THEN /\ fault' = "add_parked_car: assert !occupants.contains_key"
                    /\ UNCHANGED <<occupants, parked_cars>>
               ELSE /\ occupants' = occupants_insert(occupants, p.spot, p.vehicle)
                    /\ IF parked_cars_contains_key(parked_cars, p.vehicle)
                       THEN /\ fault' = "add_parked_car: assert !parked_cars.contains_key"
                            /\ UNCHANGED parked_cars
                       ELSE /\ parked_cars' = parked_cars_insert(parked_cars, p.vehicle, p.spot)
                            /\ fault' = "none"
    /\ UNCHANGED inventory

add_parked_car(p) == add_parked_car_upto(p, MaxEvents)

\* ------------------------------------------------------- handle_live_edits
RECURSIVE evict_loop(_, _, _, _, _)
\* a loop that evicts nobody
evict_loop_keeps_all(filled, avail_after, occ, pc, evicted) ==
    [occupants |-> occ, parked_cars |-> pc, evicted |-> evicted, fault |-> "none"]
\* The loop over filled_before: the ledger, the evicted list and the panic
\* (if any) it ends with.
evict_loop(filled, avail_after, occ, pc, evicted) ==
    IF filled = <<>>
    THEN [occupants |-> occ, parked_cars |-> pc, evicted |-> evicted, fault |-> "none"]
    ELSE LET spot == Head(filled)
         IN IF spot \in avail_after
            THEN evict_loop(Tail(filled), avail_after, occ, pc, evicted)
            ELSE IF occ[spot] = NoCar
            THEN [occupants |-> occ, parked_cars |-> pc, evicted |-> evicted,
                  fault |-> "handle_live_edits: occupants.remove(spot).unwrap()"]
            ELSE LET car == occ[spot]
                     occ2 == occupants_remove(occ, spot)
                 IN IF pc[car] = NoSpot
                    THEN [occupants |-> occ2, parked_cars |-> pc, evicted |-> evicted,
                          fault |-> "handle_live_edits: parked_cars.remove(car).unwrap()"]
                    ELSE evict_loop(Tail(filled), avail_after, occ2,
                                    parked_cars_remove(pc, car),
                                    Append(evicted, [vehicle |-> car, spot |-> pc[car]]))

\* What handle_live_edits does with reserved_spots once the loop is over.
reserved_after_edit(reserved, avail_after) == reserved \ avail_after

\* The body of handle_live_edits once `new` has returned: filled_before is the
\* filled list of the old state, n the tables of the new ParkingSimState.
live_edits_apply(filled_before, n) ==
    \* `new` has an empty ledger: every spot of it is available
    \E avail_after \in {Range(get_all_parking_spots(n.onstreet_lanes,
                                n.num_spots_per_offstreet, n.num_spots_per_lot,
                                [s \in DOMAIN occupants |-> NoCar], {}).available)} :
    \E r \in {evict_loop(filled_before, avail_after, occupants, parked_cars, <<>>)} :
        /\ onstreet_lanes' = n.onstreet_lanes
        /\ driving_to_parking_lanes' = n.driving_to_parking_lanes
        /\ num_spots_per_offstreet' = n.num_spots_per_offstreet
        /\ driving_to_offstreet' = n.driving_to_offstreet
        /\ num_spots_per_lot' = n.num_spots_per_lot
        /\ driving_to_lots' = n.driving_to_lots
        /\ occupants' = r.occupants
        /\ parked_cars' = r.parked_cars
        /\ fault' = r.fault
        /\ last' = Call("handle_live_edits", NoCar, NoSpot, r.evicted)
        /\ reserved_spots' = IF r.fault = "none"
                             THEN reserved_after_edit(reserved_spots, avail_after)
                             ELSE reserved_spots

handle_live_edits(m) ==
    /\ fault = "none"
    /\ IF new_panics(m)
       THEN /\ fault' = "ParkingLane::new: parking lane has no driving lane"
            /\ last' = Call("handle_live_edits", NoCar, NoSpot, <<>>)
            /\ UNCHANGED <<parked_cars, occupants, reserved_spots, inventory>>
       ELSE live_edits_apply(
                get_all_parking_spots(onstreet_lanes, num_spots_per_offstreet,
                                      num_spots_per_lot, occupants, reserved_spots).filled,
                new(m))
    /\ UNCHANGED events

\* ---------------------------------------------------------- collect_events
collect_events ==
    /\ fault = "none"
    /\ events' = <<>>
    /\ last' = Call("collect_events", NoCar, NoSpot, events)
    /\ UNCHANGED <<parked_cars, occupants, reserved_spots, inventory, fault>>

\* --------------------------------------------------------------- the system
Next ==
    \/ \E spot \in ParkingSpot : reserve_spot(spot) /\ UNCHANGED outside
    \/ \E p \in ParkedCar : add_parked_car(p) /\ UNCHANGED outside
    \/ \E p \in ParkedCar : remove_parked_car(p) /\ UNCHANGED outside
    \/ \E m \in Maps : handle_live_edits(m) /\ UNCHANGED outside
    \/ collect_events /\ UNCHANGED outside

Spec == Init /\ [][Next]_vars

\* ================================================================ the queries
\* -------------------------------------------------------------- positions
\* the front of the car at the front of the spot
dist_along_at_spot_front(pl, spot_idx, vehicle) == pl.spot_dist_along[spot_idx + 1]
\* ParkingLane::dist_along_for_car: the front of the car centred in the spot
dist_along_for_car(pl, spot_idx, vehicle) ==
    pl.spot_dist_along[spot_idx + 1] - ((PARKING_SPOT_LENGTH - vehicle.length) \div 2)

\* Position::equiv_pos_for_long_object (map_model): the same distance along
\* the other lane, but no nearer to its start than the length of the object.
equiv_pos_for_long_object(pos, other_lane, our_len) ==
    Position(other_lane, IF pos.dist_along < our_len THEN our_len ELSE pos.dist_along)

spot_to_driving_pos(spot, vehicle) ==
    IF spot.kind = "Onstreet"
    THEN LET lane == onstreet_lanes[spot.id]
         IN equiv_pos_for_long_object(
                Position(spot.id, dist_along_for_car(lane, spot.idx, vehicle)),
                lane.driving_lane, vehicle.length)
    ELSE IF spot.kind = "Offstreet"
    THEN map.buildings[spot.id].driving_pos
    ELSE map.lots[spot.id].driving_pos

\* --------------------------------------------------------- get_car_at_spot
\* None for a spot with no occupant; the ParkedCar record of the occupant; or
\* a panic, when `self.parked_cars[&car]` finds no record of the occupant.
get_car_at_spot(spot) ==
    IF occupants[spot] = NoCar
    THEN [some |-> FALSE, panics |-> FALSE]
    ELSE IF ~parked_cars_contains_key(parked_cars, occupants[spot])
    THEN [some |-> FALSE, panics |-> TRUE]
    ELSE [some |-> TRUE, panics |-> FALSE,
          car |-> [vehicle |-> occupants[spot],
                   spot |-> lookup_parked_car(occupants[spot])]]

\* ------------------------------------------------------------ get_draw_car
\* None, or what is drawn of parked car id on map m.  `body` of a car on the
\* street is the slice of the lane's centre line from the car's rear to its
\* front; `spots` of a lot is the number of its slots that can be drawn.
NoDrawCar == [some |-> FALSE]

get_draw_car(id, m) ==
    IF ~parked_cars_contains_key(parked_cars, id) THEN NoDrawCar
    ELSE LET spot == lookup_parked_car(id)
             vehicle == Vehicle(id)
         IN CASE spot.kind = "Onstreet" ->
                    LET front_dist == dist_along_for_car(onstreet_lanes[spot.id],
                                                         spot.idx, vehicle)
                    IN [some |-> TRUE, id |-> vehicle.id, on |-> spot.id,
                        body |-> [from |-> front_dist - vehicle.length, to |-> front_dist]]
              [] spot.kind = "Offstreet" -> NoDrawCar
              [] spot.kind = "Lot" ->
                    IF spot.idx >= m.lots[spot.id].spots THEN NoDrawCar
                    ELSE [some |-> TRUE, id |-> vehicle.id,
                          on |-> m.lots[spot.id].driving_pos.lane,
                          body |-> [slot |-> spot.idx]]

\* MultiMap::get: the empty set for a key with no entry
MultiMap_get(mm, k) == IF k \in DOMAIN mm THEN mm[k] ELSE {}

RECURSIVE SeqOfPairs(_)
\* the entries <<id, distance>> of a BTreeSet in iteration order
SeqOfPairs(S) ==
    IF S = {} THEN <<>>
    ELSE LET m == CHOOSE x \in S :
                    \A y \in S : x[1] < y[1] \/ (x[1] = y[1] /\ x[2] <= y[2])
         IN <<m>> \o SeqOfPairs(S \ {m})

\* ----------------------------------------------------- get_all_free_spots
\* a building whose parking is offered to every target
is_private_never(m, b) == FALSE
\* OffstreetParking::Private(_, _) = map.get_b(b).parking
is_private(m, b) == m.buildings[b].parking = "Private"

\* The candidates, in the order the three loops push them.
free_spot_candidates(driving_pos, vehicle, target) ==
    LET pls == SeqOfSet(MultiMap_get(driving_to_parking_lanes, driving_pos.lane))
        bs == SeqOfPairs(MultiMap_get(driving_to_offstreet, driving_pos.lane))
        ls == SeqOfSet(MultiMap_get(driving_to_lots, driving_pos.lane))
    IN Flatten([i \in 1..Len(pls) |->
            SelectSeq(ParkingLane_spots(onstreet_lanes[pls[i]]),
                      LAMBDA spot :
                        /\ is_free(spot)
                        /\ driving_pos.dist_along
                             < spot_to_driving_pos(spot, vehicle).dist_along)])
       \o Flatten([i \in 1..Len(bs) |->
            LET b == bs[i][1]
                bldg_dist == bs[i][2]
            IN IF is_private(map, b) /\ target # b
               THEN <<>>
               ELSE IF driving_pos.dist_along < bldg_dist
               THEN SelectSeq([k \in 1..num_spots_per_offstreet[b] |-> Offstreet(b, k - 1)],
                              LAMBDA spot : is_free(spot))
               ELSE <<>>])
       \o Flatten([i \in 1..Len(ls) |->
            LET pl == ls[i]
                lot_dist == map.lots[pl].driving_pos.dist_along
            IN IF driving_pos.dist_along < lot_dist
               THEN SelectSeq([k \in 1..num_spots_per_lot[pl] |-> Lot(pl, k - 1)],
                              LAMBDA spot : is_free(spot))
               ELSE <<>>])

\* get_all_free_spots: the list of <<spot, driving position>>
get_all_free_spots(driving_pos, vehicle, target) ==
    LET candidates == free_spot_candidates(driving_pos, vehicle, target)
    IN [i \in 1..Len(candidates) |->
            <<candidates[i], spot_to_driving_pos(candidates[i], vehicle)>>]

\* ----------------------------------------------- path_to_free_parking_spot
TurnID(src, dst) == [src |-> src, dst |-> dst]
PathStep_Lane(l) == [step |-> "Lane", lane |-> l]
PathStep_Turn(t) == [step |-> "Turn", turn |-> t]

\* the entry a heap ordered by lane id downwards would pop
heap_peek_low_id(queue) ==
    CHOOSE e \in Range(queue) :
        \A f \in Range(queue) : f[1] < e[1] \/ (f[1] = e[1] /\ f[2] >= e[2])
\* BinaryHeap::pop on <<Distance, LaneID>>: the greatest entry, the distance
\* (kept negated) first and the lane id second.
heap_peek(queue) ==
    CHOOSE e \in Range(queue) :
        \A f \in Range(queue) : f[1] < e[1] \/ (f[1] = e[1] /\ f[2] <= e[2])

\* the heap without one copy of entry e
heap_without(queue, e) ==
    LET i == CHOOSE k \in DOMAIN queue : queue[k] = e /\ \A j \in 1..(k - 1) : queue[j] # e
    IN SubSeq(queue, 1, i - 1) \o SubSeq(queue, i + 1, Len(queue))

\* only the first turn of the lane
get_turns_for_first_only(m, current) ==
    LET ts == {t \in m.turns : t.src = current}
        dsts == SeqOfSet({t.dst : t \in ts})
    IN [i \in 1..(IF dsts = <<>> THEN 0 ELSE 1) |-> CHOOSE t \in ts : t.dst = dsts[i]]
\* map.get_turns_for(current, PathConstraints::Car), by destination (a lane
\* has one turn to each destination)
get_turns_for(m, current) ==
    LET ts == {t \in m.turns : t.src = current}
        dsts == SeqOfSet({t.dst : t \in ts})
    IN [i \in 1..Len(dsts) |-> CHOOSE t \in ts : t.dst = dsts[i]]

RECURSIVE expand_turns(_, _, _, _, _)
\* The loop over the turns of `current`: a destination seen for the first
\* time gets its backref and its queue entry, both for good.
expand_turns(ts, dist_so_far, current, backrefs, queue) ==
    IF ts = <<>>
    THEN [backrefs |-> backrefs, queue |-> queue]
    ELSE LET turn == Head(ts)
         IN IF turn.dst \in DOMAIN backrefs
            THEN expand_turns(Tail(ts), dist_so_far, current, backrefs, queue)
            ELSE LET dist_this_step == turn.length + map.lane_length[current]
                 IN expand_turns(Tail(ts), dist_so_far, current,
                        [l \in DOMAIN backrefs \cup {turn.dst} |->
                            IF l = turn.dst THEN TurnID(turn.src, turn.dst)
                            ELSE backrefs[l]],
                        Append(queue, <<dist_so_far - dist_this_step, turn.dst>>))

RECURSIVE Reverse(_)
Reverse(q) == IF q = <<>> THEN <<>> ELSE Append(Reverse(Tail(q)), Head(q))

RECURSIVE walk_backrefs_keep_start(_, _, _, _)
\* the inner loop without steps.pop()
walk_backrefs_keep_start(steps, current, start, backrefs) ==
    IF current = start
    THEN Reverse(steps)
    ELSE LET turn == backrefs[current]
         IN walk_backrefs_keep_start(
                steps \o <<PathStep_Turn(turn), PathStep_Lane(turn.src)>>,
                turn.src, start, backrefs)

RECURSIVE walk_backrefs(_, _, _, _)
\* The inner loop: from the lane of the spot back to start, then steps.pop()
\* and steps.reverse().
walk_backrefs(steps, current, start, backrefs) ==
    IF current = start
    THEN Reverse(SubSeq(steps, 1, Len(steps) - 1))
    ELSE LET turn == backrefs[current]
         IN walk_backrefs(steps \o <<PathStep_Turn(turn), PathStep_Lane(turn.src)>>,
                          turn.src, start, backrefs)

\* the first candidate, whatever its distance
first_candidate(found) == found[1]
\* min_by_key(|(_, pos)| pos.dist_along()): the first of the least elements
min_by_dist_along(found) ==
    found[CHOOSE i \in DOMAIN found :
            /\ \A j \in DOMAIN found : found[i][2].dist_along <= found[j][2].dist_along
            /\ \A j \in 1..(i - 1) : found[j][2].dist_along > found[i][2].dist_along]

NoPosition == [lane |-> 0, dist_along |-> 0]

\* a search that looks for spots on the start lane too
looks_on_every_lane(current, start) == TRUE
\* `if current != start`: the start lane is never asked for spots
looks_for_spots_on(current, start) == current # start

RECURSIVE search_loop(_, _, _, _, _, _)
\* The while loop.  `pops` lists what each pop saw: the queue before it, and
\* the entry it took.  The result is Option<(steps, spot, pos)>, with pops.
search_loop(start, vehicle, target, queue, backrefs, pops) ==
    IF queue = <<>>
    THEN [some |-> FALSE, steps |-> <<>>, spot |-> NoSpot, pos |-> NoPosition,
          pops |-> pops]
    ELSE LET entry == heap_peek(queue)
             dist_so_far == entry[1]
             current == entry[2]
             popped == Append(pops, [queue |-> queue, dist |-> dist_so_far,
                                     lane |-> current])
             found == IF looks_for_spots_on(current, start)
                      THEN get_all_free_spots(Position_start(current), vehicle, target)
                      ELSE <<>>
         IN IF found # <<>>
            THEN LET best == min_by_dist_along(found)
                 IN [some |-> TRUE,
                     steps |-> walk_backrefs(<<PathStep_Lane(current)>>, current,
                                             start, backrefs),
                     spot |-> best[1], pos |-> best[2], pops |-> popped]
            ELSE LET x == expand_turns(get_turns_for(map, current), dist_so_far,
                                       current, backrefs, heap_without(queue, entry))
                 IN search_loop(start, vehicle, target, x.queue, x.backrefs, popped)

path_to_free_parking_spot(start, vehicle, target) ==
    search_loop(start, vehicle, target, <<<<0, start>>>>, <<>>, <<>>)

\* One call of path_to_free_parking_spot (&self: the state is left alone).
call_path_to_free_parking_spot(start, vehicle, target) ==
    /\ fault = "none"
    /\ \E r \in {path_to_free_parking_spot(start, vehicle, target)} :
        last' = Call("path_to_free_parking_spot", vehicle.id, r.spot,
                     [start |-> start, target |-> target, found |-> r])
    /\ UNCHANGED <<parked_cars, occupants, reserved_spots, inventory, events, fault>>

\* ------------------------------------------------- a town of four lanes
\* Greatest length of a turn.
MaxTurnLength == 2

\* The turns a map of the town may have: lanes 2 and 4 are reached from lane
\* 1 by one route or by two, and lane 4 leads back to lane 1.
TurnPairs == {<<1, 2>>, <<1, 3>>, <<3, 2>>, <<3, 4>>, <<4, 1>>}
RoadLanes == UNION {{p[1], p[2]} : p \in TurnPairs}

DrivingLaneInput(l) ==
    [lane_type |-> "Driving", has_driving |-> TRUE, driving_lane |-> l,
     driving_blackhole |-> FALSE, has_sidewalk |-> TRUE, number_parking_spots |-> 0]

\* The parking of the town: a lot on lane 1; a building with private parking
\* on lane 2; parking lane 5 and a lot at the very start of the lane on lane
\* 3; a building with public parking and, before it, a lot on lane 4.
TownBuilding(road, dist, parking) ==
    [driving_connection |-> TRUE, driving_pos |-> Position(road, dist),
     driving_blackhole |-> FALSE, num_parking_spots |-> 1, parking |-> parking]
TownLot(road, dist) ==
    [driving_pos |-> Position(road, dist), driving_blackhole |-> FALSE, capacity |-> 1,
     spots |-> 1]

\* The maps of the town: every choice of which turns exist and how long each
\* is; every driving lane is one unit long.
RoadMaps ==
    {[lanes |-> [l \in RoadLanes \cup {5} |->
                    IF l \in RoadLanes THEN DrivingLaneInput(l)
                    ELSE ParkingLaneInput(3, FALSE, 1)],
      buildings |-> <<TownBuilding(2, 1, "Private"), TownBuilding(4, 2, "Public")>>,
      lots |-> <<TownLot(1, 1), TownLot(4, 1), TownLot(3, 0)>>,
      turns |-> {[src |-> p[1], dst |-> p[2], length |-> f[p]] :
                    p \in {q \in TurnPairs : f[q] >= 0}},
      lane_length |-> [l \in RoadLanes |-> 1]] :
        f \in [TurnPairs -> -1..MaxTurnLength]}

TownSpots ==
    {Lot(1, 0), Offstreet(1, 0), Onstreet(5, 0), Lot(3, 0), Offstreet(2, 0), Lot(2, 0)}
\* the spots that are taken in some states of SearchSpec
TownTaken == {Offstreet(1, 0), Onstreet(5, 0), Offstreet(2, 0), Lot(2, 0)}

\* ParkingSimState::new(m), then reserve_spot of every spot of `taken`, then
\* add_parked_car of car 1 on the first of them, then collect_events.
town_state(m, taken) ==
    LET order == SelectSeq(all_spots(onstreet_lanes, num_spots_per_offstreet,
                                     num_spots_per_lot),
                           LAMBDA spot : spot \in taken)
    IN /\ new_tables(m)
       /\ \E parked \in {IF order = <<>> THEN NoSpot ELSE Head(order)} :
           /\ parked_cars = [c \in CarIDs |-> IF c = 1 THEN parked ELSE NoSpot]
           /\ occupants = [spot \in TownSpots |-> IF spot = parked THEN 1 ELSE NoCar]
           /\ reserved_spots = taken \ {parked}
           /\ events = <<>>
           /\ fault = "none"
           /\ last = Call("collect_events", NoCar, NoSpot, <<>>)
           /\ map = m

SearchInit ==
    \E m \in RoadMaps : \E taken \in SUBSET TownTaken :
        /\ town_state(m, taken)
        /\ drivers = Unrecorded

SearchNext ==
    \E start \in {1, 3} : \E target \in DOMAIN map.buildings :
        call_path_to_free_parking_spot(start, Vehicle(NumCars), target)
        /\ UNCHANGED outside

\* The searches a driver can make in the town.
SearchSpec == SearchInit /\ [][SearchNext]_vars

\* ------------------------------------------------------ two drivers
\* What a driver keeps between its calls: the spot its latest search returned
\* (`found`), whether the ledger is still as that search saw it (`fresh`), and
\* the spot it has reserved (`held`).
NoDriver == [found |-> NoSpot, fresh |-> FALSE, held |-> NoSpot]

\* the maps of the town whose turns all have length 0
RaceMaps == {m \in RoadMaps : \A t \in m.turns : t.length = 0}

RaceInit ==
    \E m \in RaceMaps :
        /\ new_state(m, TownSpots)
        /\ map = m
        /\ drivers = [c \in CarIDs |-> NoDriver]

\* A driver with no spot looks for one.
driver_search(c, start, target) ==
    /\ drivers[c].held = NoSpot
    /\ call_path_to_free_parking_spot(start, Vehicle(c), target)
    /\ drivers' = [drivers EXCEPT ![c] = [found |-> last'.spot, fresh |-> TRUE,
                                          held |-> NoSpot]]
    /\ UNCHANGED map

\* A driver reserves the spot its latest search returned, however old that
\* search is; the ledger changes, so no search result is fresh any more.
driver_reserve(c) ==
    /\ drivers[c].held = NoSpot
    /\ drivers[c].found # NoSpot
    /\ reserve_spot(drivers[c].found)
    /\ drivers' = [d \in CarIDs |->
                    [found |-> drivers[d].found, fresh |-> FALSE,
                     held |-> IF d = c /\ fault' = "none" THEN drivers[c].found
                              ELSE drivers[d].held]]
    /\ UNCHANGED map

\* A driver parks on the spot it has reserved.
driver_park(c) ==
    /\ drivers[c].held # NoSpot
    /\ parked_cars[c] = NoSpot
    /\ add_parked_car_upto([vehicle |-> c, spot |-> drivers[c].held], NumCars)
    /\ drivers' = [d \in CarIDs |-> [drivers[d] EXCEPT !.fresh = FALSE]]
    /\ UNCHANGED map

RaceNext ==
    \/ \E c \in CarIDs, start \in {1, 3}, target \in DOMAIN map.buildings :
            driver_search(c, start, target)
    \/ \E c \in CarIDs : driver_reserve(c)
    \/ \E c \in CarIDs : driver_park(c)

\* Two drivers who search, reserve and park in any order.
RaceSpec == RaceInit /\ [][RaceNext]_vars

\* ------------------------------------------- the search, one loop at a time
\* The locals of a running path_to_free_parking_spot call, kept in `drivers`:
\* `pc` is where the call stands ("idle" before the first call, "while" at the
\* head of the outer loop, "walk" at the head of the inner loop, "returned"),
\* `popped` the lanes popped so far, `at` the inner loop's `current`.
NoSearch ==
    [pc |-> "idle", start |-> 0, target |-> 0, queue |-> <<>>, backrefs |-> <<>>,
     popped |-> <<>>, steps |-> <<>>, at |-> 0, spot |-> NoSpot, pos |-> NoPosition,
     some |-> FALSE]

StepInit ==
    \E m \in RaceMaps : \E taken \in SUBSET TownTaken :
        /\ town_state(m, taken)
        /\ drivers = NoSearch

\* the ledger, the tables and the map: a search reads them and leaves them
search_reads == <<parked_cars, occupants, reserved_spots, inventory, events, fault,
                  last, map>>

\* The call: backrefs empty, the start lane pushed at distance 0.
search_call(start, target) ==
    /\ fault = "none"
    /\ drivers.pc \in {"idle", "returned"}
    /\ drivers' = [NoSearch EXCEPT !.pc = "while", !.start = start, !.target = target,
                                   !.queue = <<<<0, start>>>>]
    /\ UNCHANGED search_reads

\* One pass of `while !queue.is_empty()`, up to the inner loop: None when the
\* queue is empty; else pop, and either enter the inner loop with the best
\* spot of the lane or push the turns not seen before.
search_while ==
    /\ fault = "none"
    /\ drivers.pc = "while"
    /\ IF drivers.queue = <<>>
       THEN drivers' = [drivers EXCEPT !.pc = "returned", !.some = FALSE]
       ELSE LET entry == heap_peek(drivers.queue)
                current == entry[2]
                found == IF looks_for_spots_on(current, drivers.start)
                         THEN get_all_free_spots(Position_start(current),
                                                 Vehicle(NumCars), drivers.target)
                         ELSE <<>>
                x == expand_turns(get_turns_for(map, current), entry[1], current,
                                  drivers.backrefs, heap_without(drivers.queue, entry))
            IN IF found # <<>>
               THEN drivers' = [drivers EXCEPT
                                    !.pc = "walk",
                                    !.queue = heap_without(drivers.queue, entry),
                                    !.popped = Append(@, current),
                                    !.steps = <<PathStep_Lane(current)>>,
                                    !.at = current,
                                    !.spot = min_by_dist_along(found)[1],
                                    !.pos = min_by_dist_along(found)[2]]
               ELSE drivers' = [drivers EXCEPT !.queue = x.queue,
                                               !.backrefs = x.backrefs,
                                               !.popped = Append(@, current)]
    /\ UNCHANGED search_reads

\* an inner loop that pushes the steps and stays on its lane
walk_iteration_stays(steps, current, backrefs) ==
    [steps |-> steps \o <<PathStep_Turn(backrefs[current]),
                          PathStep_Lane(backrefs[current].src)>>,
     at |-> current]
\* the inner loop past its test: push the turn and its source lane, and go
\* on from the source lane
walk_iteration(steps, current, backrefs) ==
    [steps |-> steps \o <<PathStep_Turn(backrefs[current]),
                          PathStep_Lane(backrefs[current].src)>>,
     at |-> backrefs[current].src]

\* One pass of the inner `loop`: at the start lane pop the last step, reverse
\* and return Some; elsewhere follow the backref, which panics when the lane
\* has none.
search_walk ==
    /\ fault = "none"
    /\ drivers.pc = "walk"
    /\ IF drivers.at = drivers.start
       THEN /\ drivers' = [drivers EXCEPT
                                !.pc = "returned", !.some = TRUE,
                                !.steps = Reverse(SubSeq(@, 1, Len(@) - 1))]
            /\ UNCHANGED fault
       ELSE IF drivers.at \notin DOMAIN drivers.backrefs
       THEN /\ fault' = "path_to_free_parking_spot: backrefs[&current]"
            /\ UNCHANGED drivers
       ELSE /\ \E w \in {walk_iteration(drivers.steps, drivers.at, drivers.backrefs)} :
                drivers' = [drivers EXCEPT !.steps = w.steps, !.at = w.at]
            /\ UNCHANGED fault
    /\ UNCHANGED <<parked_cars, occupants, reserved_spots, inventory, events, last, map>>

\* the next loop pass of a call that has been made
search_runs == search_while \/ search_walk

StepNext ==
    \/ \E start \in {1, 3} : \E target \in DOMAIN map.buildings : search_call(start, target)
    \/ search_while
    \/ search_walk

\* Searches in the town, loop pass by loop pass.
StepSpec == StepInit /\ [][StepNext]_vars

\* ------------------------------------------------------- edits of the map
\* ParkingSimState with the map it was last built from on record: `map` is
\* the argument of `new`, and then of the latest handle_live_edits.
EditInit ==
    \E m \in Maps :
        /\ new_state(m, ParkingSpot)
        /\ map = m
        /\ drivers = Unrecorded

EditNext ==
    \/ \E spot \in ParkingSpot : reserve_spot(spot) /\ UNCHANGED outside
    \/ \E p \in ParkedCar : add_parked_car(p) /\ UNCHANGED outside
    \/ \E p \in ParkedCar : remove_parked_car(p) /\ UNCHANGED outside
    \/ \E m \in Maps : handle_live_edits(m) /\ map' = m /\ UNCHANGED drivers
    \/ collect_events /\ UNCHANGED outside

EditSpec == EditInit /\ [][EditNext]_vars

\* ------------------------------------------------- one long parking lane
\* Largest number of spots of the lane of LaneSpec.
MaxLaneSpots == 3
\* Events that may sit in the queue of LaneSpec.
MaxQueue == 2

LaneSpots == {Onstreet(1, i) : i \in 0..(MaxLaneSpots - 1)}

\* The maps of a town whose only parking is parking lane 1, beside driving
\* lane 2.
LaneMaps ==
    [lanes : [ParkingLaneIDs ->
                {ParkingLaneInput(2, FALSE, n) : n \in 0..MaxLaneSpots}
                \cup {ParkingLaneInput(2, TRUE, MaxLaneSpots)}],
     buildings : {<<>>},
     lots : {<<>>},
     turns : {{}},
     lane_length : {[l \in {2} |-> 1]}]

LaneInit ==
    \E m \in LaneMaps :
        /\ new_state(m, LaneSpots)
        /\ map = Unrecorded
        /\ drivers = Unrecorded

LaneNext ==
    \/ \E spot \in LaneSpots : reserve_spot(spot) /\ UNCHANGED outside
    \/ \E p \in [vehicle : CarIDs, spot : LaneSpots] :
            add_parked_car_upto(p, MaxQueue) /\ UNCHANGED outside
    \/ \E p \in [vehicle : CarIDs, spot : LaneSpots] :
            remove_parked_car_upto(p, MaxQueue) /\ UNCHANGED outside
    \/ \E m \in LaneMaps : handle_live_edits(m) /\ UNCHANGED outside
    \/ collect_events /\ UNCHANGED outside

\* The ledger operations on a lane of up to MaxLaneSpots spots.
LaneSpec == LaneInit /\ [][LaneNext]_vars

\* ================================================== maybe_add_bike_lanes
\* game/src/ungap/quick_sketch.rs.  A road's lanes_ltr is the sequence of its
\* LaneSpecs from left to right; a LaneSpec is its lane type, its direction
\* and its width.  The width of a lane of the input is "given"; a lane the
\* function makes has the typical width of its type.
\* Most lanes of a road the function is tried on.
MaxRoadLanes == 4

LaneSpec_given(lt, dir) == [lt |-> lt, dir |-> dir, width |-> "given"]
LaneSpec_typical(lt, dir) == [lt |-> lt, dir |-> dir, width |-> "typical"]

\* the roads: one to MaxRoadLanes lanes, each a sidewalk, a parking lane or a
\* driving lane of either direction
EditRoads ==
    UNION {[1..n -> {LaneSpec_given(lt, dir) :
                        lt \in {"Sidewalk", "Parking", "Driving"},
                        dir \in {"Fwd", "Back"}}] : n \in 1..MaxRoadLanes}

\* BufferType, or None
BufferTypes == {"None", "FlexPosts"}

\* the lanes of one direction, in left-to-right order
lanes_of_dir(lanes_ltr, dir) == SelectSeq(lanes_ltr, LAMBDA spec : spec.dir = dir)

\* The scan of one side: the index of the lane to replace, 0 for None.
side_idx(side) ==
    LET parking == {i \in DOMAIN side : side[i].lt = "Parking"}
        driving == {i \in DOMAIN side : side[i].lt = "Driving"}
        first(S) == CHOOSE i \in S : \A j \in S : i <= j
    IN IF parking # {}
       THEN (IF Cardinality(driving) = 0 THEN 0 ELSE first(parking))
       ELSE IF Cardinality(driving) > 1 THEN first(driving)
       ELSE 0

\* What the loop body does with one side.
side_with_bike_lane(dir, side, buffer_type) ==
    LET idx == side_idx(side)
    IN IF idx = 0 THEN side
       ELSE SubSeq(side, 1, idx - 1)
            \o <<LaneSpec_typical("Biking", dir)>>
            \o (IF buffer_type = "None" THEN <<>>
                ELSE <<LaneSpec_typical("Buffer", dir)>>)
            \o SubSeq(side, idx + 1, Len(side))

\* maybe_add_bike_lanes: the new lanes_ltr.  fwd_side is the Fwd lanes
\* reversed, back_side the Back lanes; the result is back_side followed by
\* fwd_side reversed again.
maybe_add_bike_lanes(lanes_ltr, buffer_type) ==
    LET fwd_side == Reverse(lanes_of_dir(lanes_ltr, "Fwd"))
        back_side == lanes_of_dir(lanes_ltr, "Back")
    IN side_with_bike_lane("Back", back_side, buffer_type)
       \o Reverse(side_with_bike_lane("Fwd", fwd_side, buffer_type))

\* ParkingSimState has no part in it.
BikeInit ==
    /\ map \in [lanes_ltr : EditRoads]
    /\ last = Call("get_r_edit", NoCar, NoSpot, <<>>)
    /\ fault = "none"
    /\ parked_cars = Unrecorded /\ occupants = Unrecorded /\ reserved_spots = Unrecorded
    /\ onstreet_lanes = Unrecorded /\ driving_to_parking_lanes = Unrecorded
    /\ num_spots_per_offstreet = Unrecorded /\ driving_to_offstreet = Unrecorded
    /\ num_spots_per_lot = Unrecorded /\ driving_to_lots = Unrecorded
    /\ events = Unrecorded /\ drivers = Unrecorded

\* One call on the road, which `map` holds.
call_maybe_add_bike_lanes(buffer_type) ==
    /\ map' = [lanes_ltr |-> maybe_add_bike_lanes(map.lanes_ltr, buffer_type)]
    /\ last' = Call("maybe_add_bike_lanes", NoCar, NoSpot,
                    [old |-> map.lanes_ltr, buffer_type |-> buffer_type])
    /\ UNCHANGED <<parked_cars, occupants, reserved_spots, inventory, events, fault,
                   drivers>>

BikeNext == \E buffer_type \in BufferTypes : call_maybe_add_bike_lanes(buffer_type)

BikeSpec == BikeInit /\ [][BikeNext]_vars

\* ================================================================ properties
Ok == fault = "none"

\* the inventory before and after a step, as sets of spots
InventoryNow == inventory_spots(onstreet_lanes, num_spots_per_offstreet, num_spots_per_lot)
InventoryNext == inventory_spots(onstreet_lanes', num_spots_per_offstreet', num_spots_per_lot')

Occupied(s) == occupants[s] # NoCar
Reserved(s) == s \in reserved_spots
FreeNext(s) == is_free_in(occupants', reserved_spots', s)

\* C1: in every reachable state (a halted one included) no spot is both in the
\* occupants map and in the reserved set.
C1_OccupantsReservedDisjoint ==
    \A s \in ParkingSpot : ~(Occupied(s) /\ Reserved(s))

\* C1's case: after a parking completed, one spot is occupied while another
\* is reserved.
C1_Witness ==
    /\ Ok
    /\ last.op = "add_parked_car"
    /\ \E s, t \in ParkingSpot : Occupied(s) /\ Reserved(t) /\ ~Occupied(t)

\* C2: once reserve_spot(s) has made s not free, s stays not free until
\* remove_parked_car of the car that was parked on s, or an eviction of s by
\* an edit that no longer has s; no other step frees s.  (Stated for the
\* steps that complete.)
C2_TakenUntilReleased ==
    [][/\ (last'.op = "reserve_spot" /\ fault' = "none") => ~FreeNext(last'.spot)
       /\ \A s \in ParkingSpot :
            (~is_free(s) /\ FreeNext(s) /\ fault' = "none") =>
                \/ /\ last'.op = "remove_parked_car"
                   /\ Occupied(s)
                   /\ last'.car = occupants[s]
                \/ /\ last'.op = "handle_live_edits"
                   /\ Occupied(s)
                   /\ s \notin InventoryNext]_vars

\* C3: a spot never has two cars parked on it: a second add_parked_car on a
\* spot succeeds only after remove_parked_car of the first car or its eviction,
\* so the ParkedCar records of two cars never name the same spot.
C3_OneCarPerSpot ==
    \A c1, c2 \in CarIDs :
        (c1 # c2 /\ parked_cars[c1] # NoSpot) => parked_cars[c1] # parked_cars[c2]

\* C4: after handle_live_edits the reserved set is the reserved set before,
\* intersected with the spots available in the rebuilt inventory.
C4_ReservedIntersection ==
    [][(last'.op = "handle_live_edits" /\ fault' = "none") =>
            reserved_spots' = reserved_spots \cap InventoryNext]_vars

\* C5: handle_live_edits on a map that ParkingSimState::new accepts never
\* halts, whatever the ledger holds.
C5_EditNeverFaults ==
    last.op = "handle_live_edits" =>
        fault \in {"none", "ParkingLane::new: parking lane has no driving lane"}
\* C6: the cars a completed handle_live_edits returns are exactly the
\* occupants of the spots filled before and not available after; each of them
\* is gone from occupants and from parked_cars, and no car whose spot still
\* exists is returned or changed.
C6_EvictedExactly ==
    [][(last'.op = "handle_live_edits" /\ fault' = "none") =>
        LET gone == {s \in InventoryNow : ~is_free(s) /\ s \notin InventoryNext}
            cars == {occupants[s] : s \in gone}
            returned == {last'.ret[i].vehicle : i \in DOMAIN last'.ret}
        IN /\ returned = cars
           /\ Len(last'.ret) = Cardinality(cars)
           /\ \A c \in cars :
                /\ parked_cars'[c] = NoSpot
                /\ \A s \in ParkingSpot : occupants'[s] # c
           /\ \A c \in CarIDs :
                (parked_cars[c] # NoSpot /\ parked_cars[c] \in InventoryNext) =>
                    /\ c \notin returned
                    /\ parked_cars'[c] = parked_cars[c]
                    /\ occupants'[parked_cars[c]] = occupants[parked_cars[c]]]_vars
\* C7: reserve_spot(s) completes exactly when s is free and s is a spot of
\* the current inventory, and then adds s (and nothing else) to the reserved
\* set; in every other case it halts.  So in a running program every
\* reserved spot is a spot of the inventory.
C7_ReserveOnlyFreeInventorySpot ==
    /\ [][last'.op = "reserve_spot" =>
            IF is_free(last'.spot) /\ last'.spot \in InventoryNow
            THEN /\ fault' = "none"
                 /\ reserved_spots' = reserved_spots \cup {last'.spot}
                 /\ UNCHANGED <<occupants, parked_cars, inventory>>
            ELSE fault' # "none"]_vars
    /\ [](Ok => reserved_spots \subseteq InventoryNow)

\* C7's case: a reserve_spot completed and its spot is now reserved.
C7_Witness ==
    /\ Ok
    /\ last.op = "reserve_spot"
    /\ last.spot \in reserved_spots
    /\ last.spot \in InventoryNow

\* C8: a completed add_parked_car(p) takes p.spot out of the reserved set,
\* makes p.vehicle its occupant and makes lookup_parked_car(p.vehicle) yield
\* p; every other spot and every other car is as before.
C8_AddParkedCarFrame ==
    [][(last'.op = "add_parked_car" /\ fault' = "none") =>
        LET spot == last'.spot
            car == last'.car
        IN /\ spot \in reserved_spots
           /\ spot \notin reserved_spots'
           /\ occupants'[spot] = car
           /\ lookup_parked_car_in(parked_cars', car) = spot
           /\ \A t \in ParkingSpot \ {spot} :
                /\ occupants'[t] = occupants[t]
                /\ (t \in reserved_spots') = (t \in reserved_spots)
           /\ \A d \in CarIDs \ {car} : parked_cars'[d] = parked_cars[d]
           /\ UNCHANGED inventory]_vars

\* C8's case: a parking completed while another spot was occupied and a third
\* one reserved.
C8_Witness ==
    /\ Ok
    /\ last.op = "add_parked_car"
    /\ occupants[last.spot] = last.car
    /\ \E t \in ParkingSpot \ {last.spot} : Occupied(t)
    /\ \E t \in ParkingSpot \ {last.spot} : Reserved(t)

\* C9: add_parked_car(p) halts when p.spot is not reserved, when p.spot is
\* occupied, or when p.vehicle already has a ParkedCar record.
C9_AddParkedCarFaults ==
    [][(/\ last'.op = "add_parked_car"
        /\ \/ last'.spot \notin reserved_spots
           \/ Occupied(last'.spot)
           \/ parked_cars[last'.car] # NoSpot) => fault' # "none"]_vars

\* C9's case: add_parked_car halted on a reserved, unoccupied spot because the
\* vehicle was already parked.
C9_Witness ==
    /\ last.op = "add_parked_car"
    /\ fault = "add_parked_car: assert !parked_cars.contains_key"

\* C10: remove_parked_car halts for a vehicle that is not parked; for a parked
\* vehicle a completed call removes the vehicle from parked_cars and empties
\* the spot its record names, and no other spot's occupant changes.
C10_RemoveParkedCar ==
    [][last'.op = "remove_parked_car" =>
        LET car == last'.car
            spot == parked_cars[car]
        IN IF spot = NoSpot
           THEN fault' # "none"
           ELSE fault' = "none" =>
                /\ parked_cars'[car] = NoSpot
                /\ occupants'[spot] = NoCar
                /\ \A t \in ParkingSpot \ {spot} : occupants'[t] = occupants[t]]_vars

\* C11: a completed add_parked_car appends exactly one CarReachedParkingSpot
\* of its car and spot at the end of the queue, a completed remove_parked_car
\* exactly one CarLeftParkingSpot; collect_events returns the queue as it
\* stands, in order, and leaves it empty; no other operation touches the
\* queue.  So the results of successive collect_events, concatenated, are the
\* admissions and departures in call order, none lost and none twice.
C11_EventsInCallOrder ==
    [][/\ (last'.op = "add_parked_car" /\ fault' = "none") =>
            events' = Append(events, CarReachedParkingSpot(last'.car, last'.spot))
       /\ (last'.op = "remove_parked_car" /\ fault' = "none") =>
            events' = Append(events, CarLeftParkingSpot(last'.car, last'.spot))
       /\ last'.op = "collect_events" =>
            /\ last'.ret = events
            /\ events' = <<>>
       /\ last'.op \in {"reserve_spot", "handle_live_edits"} =>
            events' = events]_vars

\* C11's case: collect_events returned two events, the arrival of a car and
\* then its departure.
C11_Witness ==
    /\ Ok
    /\ last.op = "collect_events"
    /\ Len(last.ret) = 2
    /\ last.ret[1].event = "CarReachedParkingSpot"
    /\ last.ret[2].event = "CarLeftParkingSpot"
    /\ last.ret[1].car = last.ret[2].car
    /\ events = <<>>

\* C12: in every state get_free_onstreet_spots(l) is the list, in ascending
\* index order, of exactly the inventory spots of parking lane l that are
\* neither occupied nor reserved; for a lane with no parking in the inventory
\* (lane 1 when it is not recorded, the driving lane 2) it is the empty list.
C12_FreeOnstreetSpots ==
    \A l \in {1, 2} :
        LET r == get_free_onstreet_spots(l)
        IN /\ Range(r) = {s \in InventoryNow :
                            /\ s.kind = "Onstreet" /\ s.id = l
                            /\ ~Occupied(s) /\ ~Reserved(s)}
           /\ \A i, j \in DOMAIN r : i < j => r[i].idx < r[j].idx
           /\ l \notin DOMAIN onstreet_lanes => r = <<>>

\* C12's case: the lane has three spots and index 1 has just been reserved:
\* the free spots are indices 0 and 2.
C12_Witness ==
    /\ Ok
    /\ last.op = "reserve_spot"
    /\ last.spot = Onstreet(1, 1)
    /\ Len(onstreet_lanes[1].spot_dist_along) = 3
    /\ get_free_onstreet_spots(1) = <<Onstreet(1, 0), Onstreet(1, 2)>>

\* ------------------------------------------------- properties of the search
Searched == last.op = "path_to_free_parking_spot"
\* the arguments and the result of the search just made
SearchStart == last.ret.start
SearchTarget == last.ret.target
SearchVehicle == Vehicle(last.car)
Found == last.ret.found

RECURSIVE LanesWithin(_, _)
\* the lanes reached from the lanes S by at most k more car turns
LanesWithin(S, k) ==
    IF k = 0 THEN S
    ELSE LanesWithin(S \cup {t.dst : t \in {u \in map.turns : u.src \in S}}, k - 1)

\* the lanes reachable from lane `start` by one car turn or more
ReachableFrom(start) ==
    LanesWithin({t.dst : t \in {u \in map.turns : u.src = start}}, Cardinality(RoadLanes))

\* spot is free, lies on driving lane l ahead of the start of the lane, and
\* is not private parking of a building other than the target
Qualifies(spot, l, vehicle, target) ==
    /\ spot \in InventoryNow
    /\ ~Occupied(spot) /\ ~Reserved(spot)
    /\ spot_to_driving_pos(spot, vehicle).lane = l
    /\ spot_to_driving_pos(spot, vehicle).dist_along > 0
    /\ (spot.kind = "Offstreet" /\ map.buildings[spot.id].parking = "Private")
            => target = spot.id

HasQualifyingSpot(l, vehicle, target) ==
    \E spot \in InventoryNow : Qualifies(spot, l, vehicle, target)

RECURSIVE MinCostWithin(_, _)
\* least accumulated lane + turn length from the start lane to each lane, over
\* the routes of at most k more turns; d maps the lanes reached so far
MinCostWithin(d, k) ==
    IF k = 0 THEN d
    ELSE LET via(l) == {d[t.src] + map.lane_length[t.src] + t.length :
                            t \in {u \in map.turns : u.dst = l /\ u.src \in DOMAIN d}}
             costs(l) == via(l) \cup (IF l \in DOMAIN d THEN {d[l]} ELSE {})
         IN MinCostWithin([l \in {x \in RoadLanes : costs(x) # {}} |->
                              CHOOSE c \in costs(l) : \A e \in costs(l) : c <= e],
                          k - 1)

MinCost(start) == MinCostWithin([l \in {start} |-> 0], Cardinality(RoadLanes))

\* C13: a search never returns a spot on the start lane, so none at or behind
\* the driver's position on it: the position returned is the spot's driving
\* position, on another lane and ahead of that lane's start.  Maps with a
\* cycle back to the start lane are among those checked.
C13_NeverOnStartLane ==
    (Searched /\ Found.some) =>
        /\ Found.pos = spot_to_driving_pos(Found.spot, SearchVehicle)
        /\ Found.pos.lane # SearchStart
        /\ Found.pos.dist_along > 0

\* C13's case: the start lane has a free spot and lies on a cycle; the search
\* popped the start lane a second time and then returned a spot elsewhere.
C13_Witness ==
    /\ Searched
    /\ Found.some
    /\ HasQualifyingSpot(SearchStart, SearchVehicle, SearchTarget)
    /\ SearchStart \in ReachableFrom(SearchStart)
    /\ \E i \in 2..(Len(Found.pops) - 1) : Found.pops[i].lane = SearchStart

\* C14: a search returns no spot of a building with private parking other
\* than the target; and for every position and target get_all_free_spots
\* returns, of the buildings and the lots, exactly the free spots ahead of the
\* position on its lane, those of private buildings other than the target
\* left out.
C14_PrivateOnlyForTarget ==
    /\ (Searched /\ Found.some /\ Found.spot.kind = "Offstreet"
            /\ map.buildings[Found.spot.id].parking = "Private")
        => Found.spot.id = SearchTarget
    /\ ~Searched =>
        \A l \in RoadLanes, d \in 0..2, target \in DOMAIN map.buildings :
            LET r == get_all_free_spots(Position(l, d), Vehicle(NumCars), target)
            IN {r[i][1] : i \in {k \in DOMAIN r : r[k][1].kind # "Onstreet"}}
               = {spot \in InventoryNow :
                    /\ spot.kind # "Onstreet"
                    /\ ~Occupied(spot) /\ ~Reserved(spot)
                    /\ spot_to_driving_pos(spot, Vehicle(NumCars)).lane = l
                    /\ d < spot_to_driving_pos(spot, Vehicle(NumCars)).dist_along
                    /\ (spot.kind = "Offstreet"
                            /\ map.buildings[spot.id].parking = "Private")
                        => target = spot.id}

\* C14's case: the private building is not the target, its spot is free and
\* its lane was popped; the search went on and returned the spot of the
\* public building.
C14_Witness ==
    /\ Searched
    /\ SearchTarget = 2
    /\ is_free(Offstreet(1, 0))
    /\ \E i \in DOMAIN Found.pops : Found.pops[i].lane = 2
    /\ Found.some
    /\ Found.spot = Offstreet(2, 0)

\* C15: the lane of the returned spot is a nearest one: its least accumulated
\* lane + turn length from the start lane is at most that of every other lane,
\* reachable from the start lane and not the start lane, with a qualifying
\* free spot.
C15_NearestLane ==
    (Searched /\ Found.some) =>
        \A l \in ReachableFrom(SearchStart) \ {SearchStart} :
            HasQualifyingSpot(l, SearchVehicle, SearchTarget) =>
                MinCost(SearchStart)[Found.pos.lane] <= MinCost(SearchStart)[l]

\* C16 as the claim has it: when the entry popped has the same cost as
\* another entry of the frontier, the popped lane has the lower id.
C16_LowerIdFirst ==
    Searched =>
        \A i \in DOMAIN Found.pops :
            \A f \in Range(Found.pops[i].queue) :
                (f[1] = Found.pops[i].dist /\ f[2] # Found.pops[i].lane) =>
                    Found.pops[i].lane < f[2]

\* C16, amended: every pop takes an entry of least cost, and when another
\* entry of the frontier has the same cost the popped lane has the HIGHER id.
C16_HigherIdFirst ==
    Searched =>
        \A i \in DOMAIN Found.pops :
            \A f \in Range(Found.pops[i].queue) :
                /\ -Found.pops[i].dist <= -f[1]
                /\ (f[1] = Found.pops[i].dist /\ f[2] # Found.pops[i].lane) =>
                        Found.pops[i].lane > f[2]

\* C16's case: a pop chose between two lanes of equal cost.
C16_Witness ==
    /\ Searched
    /\ \E i \in DOMAIN Found.pops :
        \E f \in Range(Found.pops[i].queue) :
            f[1] = Found.pops[i].dist /\ f[2] < Found.pops[i].lane

\* C17: a returned path is a connected route: it starts with a turn out of
\* the start lane (never with Lane(start)), turns and lanes alternate, each
\* turn is a turn of the map from the lane before it to the lane after it, and
\* the last step is the lane that was being examined when the spot was found,
\* a lane on which get_all_free_spots lists the returned spot.
C17_PathIsRoute ==
    (Searched /\ Found.some) =>
        LET steps == Found.steps
            lane_before(i) == IF i = 1 THEN SearchStart ELSE steps[i - 1].lane
        IN /\ Len(steps) >= 2
           /\ Len(steps) % 2 = 0
           /\ \A i \in DOMAIN steps :
                IF i % 2 = 1
                THEN /\ steps[i].step = "Turn"
                     /\ steps[i].turn.src = lane_before(i)
                     /\ steps[i].turn.dst = steps[i + 1].lane
                     /\ \E t \in map.turns :
                            t.src = steps[i].turn.src /\ t.dst = steps[i].turn.dst
                ELSE steps[i].step = "Lane"
           /\ steps[Len(steps)] = PathStep_Lane(Found.pops[Len(Found.pops)].lane)
           /\ Found.spot \in {c[1] : c \in Range(get_all_free_spots(
                    Position_start(steps[Len(steps)].lane), SearchVehicle, SearchTarget))}

\* C17's case: a path of two turns or more, on a map where the start lane
\* lies on a cycle.
C17_Witness ==
    /\ Searched
    /\ Found.some
    /\ Len(Found.steps) >= 4
    /\ SearchStart \in ReachableFrom(SearchStart)

\* C18: the search returns None exactly when no lane reachable from the start
\* lane by car turns, the start lane itself left out, has a qualifying free
\* spot; in every other case it returns Some.  (None is a result: the state is
\* left as it was and nothing halts.)
C18_NoneIffNoSpot ==
    Searched =>
        /\ Found.some <=>
            \E l \in ReachableFrom(SearchStart) \ {SearchStart} :
                HasQualifyingSpot(l, SearchVehicle, SearchTarget)
        /\ fault = "none"

\* C18's case: None, although the start lane has a free spot and a lane that
\* cannot be reached has one too, after the search went through other lanes.
C18_Witness ==
    /\ Searched
    /\ ~Found.some
    /\ Len(Found.pops) >= 2
    /\ HasQualifyingSpot(SearchStart, SearchVehicle, SearchTarget)
    /\ \E l \in RoadLanes \ (ReachableFrom(SearchStart) \cup {SearchStart}) :
            HasQualifyingSpot(l, SearchVehicle, SearchTarget)

\* C19: two drivers may be given the same spot by searches with no ledger
\* change in between (the witness).  A reserve_spot of a spot that some driver
\* got from a search made after the last ledger change never halts, and no two
\* drivers ever hold the same spot; a reserve_spot of a spot that is no longer
\* free (the stale result, once the other driver has reserved it) halts.
C19_ReserveAfterSearch ==
    /\ [][last'.op = "reserve_spot" =>
            /\ (\E c \in CarIDs : drivers[c].fresh /\ drivers[c].found = last'.spot)
                    => fault' = "none"
            /\ (Occupied(last'.spot) \/ Reserved(last'.spot)) => fault' # "none"]_vars
    /\ [](\A c, d \in CarIDs :
            (c # d /\ drivers[c].held # NoSpot) => drivers[c].held # drivers[d].held)

\* C19's case: both drivers were given the same spot, one reserved it, and the
\* other's reserve_spot of it halted.
C19_Witness ==
    /\ fault = "reserve_spot: assert is_free"
    /\ drivers[1].found = drivers[2].found
    /\ \E c \in CarIDs : drivers[c].held = drivers[c].found

\* the spots 0..n-1 of the parking lanes, the buildings and the parking lots
\* of map m that C20 lists
ListedSpots(m) ==
    {s \in ParkingSpot :
        CASE s.kind = "Onstreet" ->
                /\ m.lanes[s.id].lane_type = "Parking"
                /\ m.lanes[s.id].has_driving
                /\ ~m.lanes[s.id].driving_blackhole
                /\ m.lanes[s.id].has_sidewalk
                /\ s.idx \in 0..(m.lanes[s.id].number_parking_spots - 1)
          [] s.kind = "Offstreet" ->
                /\ m.buildings[s.id].driving_connection
                /\ ~m.buildings[s.id].driving_blackhole
                /\ m.buildings[s.id].num_parking_spots > 0
                /\ s.idx \in 0..(m.buildings[s.id].num_parking_spots - 1)
          [] s.kind = "Lot" ->
                /\ ~m.lots[s.id].driving_blackhole
                /\ s.idx \in 0..(m.lots[s.id].capacity - 1)}

\* the driving lane of the object a spot belongs to is a blackhole in map m
OnBlackhole(m, s) ==
    CASE s.kind = "Onstreet" -> m.lanes[s.id].driving_blackhole
      [] s.kind = "Offstreet" -> m.buildings[s.id].driving_blackhole
      [] s.kind = "Lot" -> m.lots[s.id].driving_blackhole

\* `new` panicked on the map: no ParkingSimState was built from it
NewPanicked == fault = "ParkingLane::new: parking lane has no driving lane"

\* C20: once new(map) or handle_live_edits(map) has built the tables from the
\* map, and until the next edit, the inventory is exactly the spots 0..n-1 of
\* the parking lanes with a driving lane that is not a blackhole and with a
\* sidewalk, of the buildings with a driving connection on a lane that is not
\* a blackhole and n > 0 spots, and of the parking lots on a lane that is not a
\* blackhole; no spot on a blackhole lane is in it.
C20_InventoryFromMap ==
    ~NewPanicked =>
        /\ InventoryNow = ListedSpots(map)
        /\ \A s \in InventoryNow : ~OnBlackhole(map, s)

\* C20's case: an edit has put the parking lane on a blackhole and emptied the
\* lot, while the building kept its spot and the car on it.
C20_Witness ==
    /\ Ok
    /\ last.op = "handle_live_edits"
    /\ map.lanes[1].driving_blackhole
    /\ map.lots[1].capacity = 0 /\ ~map.lots[1].driving_blackhole
    /\ Occupied(Offstreet(1, 0))
    /\ InventoryNow = {Offstreet(1, 0)}
    /\ Len(last.ret) > 0

\* ----------------------------------------------------- properties of a lane
\* the cars parked on a spot of a recorded parking lane
OnstreetCars ==
    {c \in CarIDs : parked_cars[c].kind = "Onstreet" /\ parked_cars[c] \in InventoryNow}
\* the front distance of the spot car c is parked on
SpotFront(c) == onstreet_lanes[parked_cars[c].id].spot_dist_along[parked_cars[c].idx + 1]

\* C21 as the claim has it: the body of a car of length L parked on a spot
\* with front distance D has its rear at exactly D - L.
C21_RearAtFrontMinusLength ==
    \A c \in OnstreetCars :
        get_draw_car(c, map).body.from = SpotFront(c) - Vehicle(c).length

\* C21, amended: the car is centred in its spot.  Its body is as long as the
\* car, and the gap from its front to the front of the spot equals the gap
\* from the rear of the spot to its rear; so the rear is at D - (S + L) / 2
\* for spot length S, which is D - L only for a car as long as the spot.
C21_CentredInSpot ==
    \A c \in OnstreetCars :
        LET car == get_draw_car(c, map)
        IN /\ car.some
           /\ car.on = parked_cars[c].id
           /\ car.body.to - car.body.from = Vehicle(c).length
           /\ SpotFront(c) - car.body.to
                = car.body.from - (SpotFront(c) - PARKING_SPOT_LENGTH)
           /\ (car.body.from = SpotFront(c) - Vehicle(c).length)
                <=> (Vehicle(c).length = PARKING_SPOT_LENGTH)

\* C21's case: a car shorter than the spot and a car as long as the spot are
\* parked on the lane.
C21_Witness ==
    /\ Ok
    /\ last.op = "add_parked_car"
    /\ \E c, d \in OnstreetCars :
        /\ Vehicle(c).length < PARKING_SPOT_LENGTH
        /\ Vehicle(d).length = PARKING_SPOT_LENGTH
        /\ parked_cars[c].idx > 0

\* C27 as the claim has it: index 0 is the farthest along; for spots i < j of
\* a lane the front distance of i is greater than that of j.
C27_IndexZeroFarthest ==
    \A l \in DOMAIN onstreet_lanes :
        \A i, j \in DOMAIN onstreet_lanes[l].spot_dist_along :
            i < j => onstreet_lanes[l].spot_dist_along[i] > onstreet_lanes[l].spot_dist_along[j]

\* C27, amended: index 0 is the NEAREST to the start of the lane; for spots
\* i < j of a lane the front distance of i is less than that of j, by one spot
\* length for each index between them.
C27_IndexZeroNearest ==
    \A l \in DOMAIN onstreet_lanes :
        \A i, j \in DOMAIN onstreet_lanes[l].spot_dist_along :
            i < j =>
                /\ onstreet_lanes[l].spot_dist_along[i] < onstreet_lanes[l].spot_dist_along[j]
                /\ onstreet_lanes[l].spot_dist_along[j] - onstreet_lanes[l].spot_dist_along[i]
                    = (j - i) * PARKING_SPOT_LENGTH

\* C27's case: an edit has given the lane three spots where it had fewer.
C27_Witness ==
    /\ Ok
    /\ last.op = "handle_live_edits"
    /\ \E l \in DOMAIN onstreet_lanes : Len(onstreet_lanes[l].spot_dist_along) = 3
    /\ \E c \in CarIDs : parked_cars[c] = Onstreet(1, 0)

\* C28: while no call has halted, occupants and parked_cars agree: car c is
\* the occupant of spot s exactly when the record of c names s; so
\* get_car_at_spot finds the record of every occupant.
C28_OccupantsMatchRecords ==
    Ok =>
        /\ \A c \in CarIDs : \A s \in DOMAIN occupants :
                (occupants[s] = c) <=> (parked_cars[c] = s)
        /\ \A s \in DOMAIN occupants : ~get_car_at_spot(s).panics

\* the spots that are occupied or reserved
TakenSpots == {s \in DOMAIN occupants : Occupied(s)} \cup reserved_spots

\* C29: while no call has halted, and so after every handle_live_edits that
\* returned, each spot that is occupied or reserved is a spot of the current
\* inventory; and a completed add_parked_car parks its car on a spot of the
\* inventory.
C29_TakenWithinInventory ==
    /\ [](Ok => TakenSpots \subseteq InventoryNow)
    /\ [][(last'.op = "add_parked_car" /\ fault' = "none") =>
            last'.spot \in InventoryNext]_vars

\* C29's case: an edit took away the spot of a parked car and evicted it,
\* while another car stays parked on a spot the new map still has.
C29_Witness ==
    /\ Ok
    /\ last.op = "handle_live_edits"
    /\ Len(last.ret) = 1
    /\ last.ret[1].spot \notin InventoryNow
    /\ \E s \in InventoryNow : Occupied(s)

\* ------------------------------------------ more properties of the search
\* the lane popped last: the one on which the returned spot was found
FoundLane == Found.pops[Len(Found.pops)].lane

\* C23: during one search no lane is popped from the frontier twice, the
\* start lane included.
C23_EachLaneOnce ==
    Searched =>
        \A i, j \in DOMAIN Found.pops :
            i # j => Found.pops[i].lane # Found.pops[j].lane

\* C24: the spot returned is on the first popped lane, other than the start
\* lane, that has a qualifying free spot; its position is its driving
\* position, and no qualifying free spot of that lane, on the street, in a
\* building or in a lot, has a smaller distance along the lane.
C24_NearestOnFirstLane ==
    (Searched /\ Found.some) =>
        /\ FoundLane # SearchStart
        /\ \A i \in 1..(Len(Found.pops) - 1) :
                \/ Found.pops[i].lane = SearchStart
                \/ ~HasQualifyingSpot(Found.pops[i].lane, SearchVehicle, SearchTarget)
        /\ Qualifies(Found.spot, FoundLane, SearchVehicle, SearchTarget)
        /\ Found.pos = spot_to_driving_pos(Found.spot, SearchVehicle)
        /\ \A s \in InventoryNow :
                Qualifies(s, FoundLane, SearchVehicle, SearchTarget) =>
                    Found.pos.dist_along
                        <= spot_to_driving_pos(s, SearchVehicle).dist_along

\* C24's case: the lane of the returned spot has a free building spot and,
\* nearer to its start, a free lot spot; a lane without a qualifying spot was
\* popped before it.
C24_Witness ==
    /\ Searched
    /\ Found.some
    /\ FoundLane = 4
    /\ Qualifies(Offstreet(2, 0), 4, SearchVehicle, SearchTarget)
    /\ Found.spot = Lot(2, 0)
    /\ \E i \in 1..(Len(Found.pops) - 1) : Found.pops[i].lane # SearchStart

\* C25: every spot get_all_free_spots returns for a position is neither
\* occupied nor reserved, is a spot of the inventory, and comes with its
\* driving position, which is on the lane of the position and strictly farther
\* along; so is the spot a search returns.  (The ledger does not change in
\* SearchSpec: every position and target is asked in the states before the
\* first search.)
C25_FreeAndAhead ==
    /\ (Searched /\ Found.some) =>
        /\ ~Occupied(Found.spot) /\ ~Reserved(Found.spot)
        /\ Found.spot \in InventoryNow
        /\ Found.pos.lane = FoundLane
        /\ Found.pos.dist_along > 0
    /\ ~Searched =>
        \A l \in RoadLanes, d \in 0..(3 * PARKING_SPOT_LENGTH),
           target \in DOMAIN map.buildings :
            LET r == get_all_free_spots(Position(l, d), Vehicle(NumCars), target)
            IN \A i \in DOMAIN r :
                /\ ~Occupied(r[i][1]) /\ ~Reserved(r[i][1])
                /\ r[i][1] \in InventoryNow
                /\ r[i][2] = spot_to_driving_pos(r[i][1], Vehicle(NumCars))
                /\ r[i][2].lane = l
                /\ d < r[i][2].dist_along

\* C25's case: the lot spot nearest the start of lane 4 is taken and the
\* search returned the building spot behind it; asked from exactly the
\* position of the building, get_all_free_spots returns nothing, and asked
\* from the lane of the parking lane it leaves out the taken spot on the street.
C25_Witness ==
    /\ Searched
    /\ Found.some
    /\ Found.spot = Offstreet(2, 0)
    /\ Reserved(Lot(2, 0))
    /\ Occupied(Onstreet(5, 0))
    /\ get_all_free_spots(Position(4, 1), SearchVehicle, SearchTarget)
        = <<<<Offstreet(2, 0), Position(4, 2)>>>>
    /\ get_all_free_spots(Position(4, 2), SearchVehicle, SearchTarget) = <<>>
    /\ get_all_free_spots(Position(3, 0), SearchVehicle, SearchTarget) = <<>>

\* C26: a search terminates, by a count that every loop pass uses up.  Each
\* pass of the outer loop that does not leave it pops one more entry, and the
\* entries popped and those in the queue together are the start entry and one
\* entry for each lane with a backref: at most one more pops than lanes.  Each
\* pass of the inner loop that does not return adds one lane to the steps, and
\* no lane comes twice, so it reaches the start lane; it never misses a
\* backref.  A call that has not returned can always make its next pass, and
\* what it returns is what path_to_free_parking_spot computes.
C26_SearchTerminates ==
    /\ [][/\ (drivers.pc = "while" /\ drivers'.pc = "while") =>
                Len(drivers'.popped) = Len(drivers.popped) + 1
          /\ (drivers.pc = "walk" /\ drivers'.pc = "walk") =>
                Len(drivers'.steps) = Len(drivers.steps) + 2]_vars
    /\ [](drivers.pc = "while" =>
            /\ Len(drivers.popped) + Len(drivers.queue)
                = Cardinality(DOMAIN drivers.backrefs) + 1
            /\ DOMAIN drivers.backrefs \subseteq RoadLanes)
    /\ [](Len(drivers.popped) <= Cardinality(RoadLanes) + 1)
    /\ [](drivers.pc = "walk" =>
            /\ \A i \in DOMAIN drivers.steps :
                    drivers.steps[i].step = "Lane" => drivers.steps[i].lane \in RoadLanes
            /\ \A i, j \in DOMAIN drivers.steps :
                    (i # j /\ drivers.steps[i].step = "Lane"
                           /\ drivers.steps[j].step = "Lane")
                        => drivers.steps[i].lane # drivers.steps[j].lane)
    /\ [](fault = "none")
    /\ [](drivers.pc \in {"while", "walk"} => ENABLED search_runs)
    /\ [](drivers.pc = "returned" =>
            LET r == path_to_free_parking_spot(drivers.start, Vehicle(NumCars),
                                               drivers.target)
            IN /\ drivers.some = r.some
               /\ drivers.some =>
                    /\ drivers.steps = r.steps
                    /\ drivers.spot = r.spot
                    /\ drivers.pos = r.pos
               /\ drivers.popped = [i \in DOMAIN r.pops |-> r.pops[i].lane])

\* C26's case: a cycle through the start lane; every lane was popped, the
\* start lane twice, the queue ran empty and None was returned.
C26_Witness ==
    /\ drivers.pc = "returned"
    /\ ~drivers.some
    /\ Len(drivers.popped) = Cardinality(RoadLanes) + 1
    /\ drivers.popped[Len(drivers.popped)] = drivers.start

\* C26's other case: the inner loop walked back over two turns to the start
\* lane, on a map where a turn leads back into the start lane.
C26_WitnessPath ==
    /\ drivers.pc = "returned"
    /\ drivers.some
    /\ Len(drivers.steps) >= 4
    /\ \E t \in map.turns : t.dst = drivers.start

\* ---------------------------------------------- properties of bike lanes
\* The result C22 describes.  A side is the lanes of one direction; its
\* outermost lane is the rightmost one for Fwd and the leftmost one for Back.
\* The lane C22 picks on a side (0 for none): the outermost parking lane if the
\* side has a parking lane and a driving lane, else the outermost driving lane
\* if it has more than one.
PickedLane(lanes, dir) ==
    LET parking == {i \in DOMAIN lanes : lanes[i].dir = dir /\ lanes[i].lt = "Parking"}
        driving == {i \in DOMAIN lanes : lanes[i].dir = dir /\ lanes[i].lt = "Driving"}
        outermost(S) == IF dir = "Fwd" THEN CHOOSE i \in S : \A j \in S : j <= i
                        ELSE CHOOSE i \in S : \A j \in S : i <= j
    IN IF parking # {} /\ driving # {} THEN outermost(parking)
       ELSE IF Cardinality(driving) > 1 THEN outermost(driving)
       ELSE 0

\* Every lane in its place; the picked lanes become bike lanes, each with a
\* buffer on its inward side when a buffer type is given.
BikeLanesInPlace(lanes, buffer_type) ==
    LET buffer(dir) == IF buffer_type = "None" THEN <<>>
                       ELSE <<LaneSpec_typical("Buffer", dir)>>
    IN Flatten([i \in DOMAIN lanes |->
            IF i = PickedLane(lanes, "Fwd")
            THEN buffer("Fwd") \o <<LaneSpec_typical("Biking", "Fwd")>>
            ELSE IF i = PickedLane(lanes, "Back")
            THEN <<LaneSpec_typical("Biking", "Back")>> \o buffer("Back")
            ELSE <<lanes[i]>>])

\* C22: maybe_add_bike_lanes turns the picked lane of each side into a bike
\* lane, puts a buffer of the same direction just inward of it when a buffer
\* type is given, and leaves every other lane with its type, its direction and
\* its place among the others.
C22_BikeLanesInPlace ==
    [][last'.op = "maybe_add_bike_lanes" =>
            map'.lanes_ltr = BikeLanesInPlace(map.lanes_ltr, last'.ret.buffer_type)]_vars

=============================================================================
